---- MODULE Spec2Model ----
(***************************************************************************)
(* Model of Student_Report_Card_Manager.py: the Student record, the        *)
(* GradeManager collection with its JSON persistence, and the menu loop    *)
(* of main().                                                              *)
(*                                                                         *)
(* Strings are sequences of one-character strings, so that str.strip() is  *)
(* computed.  A Python dict is a sequence of <<key, value>> pairs with     *)
(* pairwise distinct keys, in insertion order.  Scores are floats with one *)
(* decimal digit, held as an integer number of tenths (1000 is 100.0).     *)
(***************************************************************************)
EXTENDS Integers, Sequences, FiniteSets, TLC

\* ---------------------------------------------------------------- bounds
MaxStudents == 2   \* add_student is offered while the collection is shorter
MaxId == 2         \* add_student is offered while _next_id <= MaxId
MaxTyped == 2      \* subject/score pairs typed at the prompts of ask_scores

\* ---------------------------------------------------------------- inputs
\* the limits of set_score, 0 and 100, in tenths
ScoreMin == 0
ScoreMax == 1000

NameInputs == {<<" ", "A", " ">>}
SubjectInputs == {<<" ", "M", " ">>, <<"H">>}
\* -0.1, 99.5 and 100.1
ScoreInputs == {0 - 1, 995, 1001}
IdInputs == 1..(MaxId + 1)

\* the data file: absent, or present with its JSON text
NoFile == [exists |-> FALSE, text |-> <<>>]
FileWith(text) == [exists |-> TRUE, text |-> text]

VARIABLES students, next_id, file, saved, maxIssued, maxIssuedSinceLoad, last, pc

vars == <<students, next_id, file, saved, maxIssued, maxIssuedSinceLoad, last, pc>>

\* ------------------------------------------------------------ str.strip
IsSpace(c) == c = " "

RECURSIVE LStrip(_)
LStrip(s) == IF s /= <<>> /\ IsSpace(Head(s)) THEN LStrip(Tail(s)) ELSE s

RECURSIVE RStrip(_)
RStrip(s) ==
    IF s /= <<>> /\ IsSpace(s[Len(s)]) THEN RStrip(SubSeq(s, 1, Len(s) - 1)) ELSE s

Strip(s) == RStrip(LStrip(s))

\* ------------------------------------------------------------ dict
DictKeys(d) == {d[i][1] : i \in DOMAIN d}

DictSet(d, k, v) ==
    IF k \in DictKeys(d)
    THEN [i \in DOMAIN d |-> IF d[i][1] = k THEN <<k, v>> ELSE d[i]]
    ELSE Append(d, <<k, v>>)

\* ------------------------------------------------------------ Student
Student(student_id, name) ==
    [id |-> student_id, name |-> Strip(name), subjects |-> <<>>]

\* mutant: no upper limit
InRange_NoUpper(score) == ScoreMin <= score

InRange(score) == ScoreMin <= score /\ score <= ScoreMax

\* mutant: the entry is stored before the range is tested
set_score_StoreFirst(stu, subject, score) ==
    [raised |-> ~InRange(score),
     stu |-> [stu EXCEPT !.subjects = DictSet(@, Strip(subject), score)]]

\* set_score: the outcome (raised ValueError or not) and the record after it
set_score(stu, subject, score) ==
    IF ~InRange(score)
    THEN [raised |-> TRUE, stu |-> stu]
    ELSE [raised |-> FALSE,
          stu |-> [stu EXCEPT !.subjects = DictSet(@, Strip(subject), score)]]

to_dict(stu) == [id |-> stu.id, name |-> stu.name, subjects |-> stu.subjects]

from_dict(data) ==
    [Student(data.id, data.name) EXCEPT !.subjects = data.subjects]

\* ------------------------------------------------------------ json
\* mutant: the fraction digit is lost in the text
FormatFloat_Trunc(x) == <<x \div 10, 0>>

\* repr of a float with one decimal digit: <<integer part, fraction digit>>
FormatFloat(x) == <<x \div 10, x % 10>>
ParseFloat(t) == t[1] * 10 + t[2]

\* a JSON object is the sequence of its members as written in the text
DumpsObject(d) == [i \in DOMAIN d |-> <<d[i][1], FormatFloat(d[i][2])>>]

RECURSIVE LoadsObject(_, _)
LoadsObject(members, acc) ==
    IF members = <<>> THEN acc
    ELSE LoadsObject(Tail(members),
                     DictSet(acc, Head(members)[1], ParseFloat(Head(members)[2])))

dumps(data) ==
    [i \in DOMAIN data |->
        [id |-> data[i].id, name |-> data[i].name,
         subjects |-> DumpsObject(data[i].subjects)]]

loads(text) ==
    [i \in DOMAIN text |->
        [id |-> text[i].id, name |-> text[i].name,
         subjects |-> LoadsObject(text[i].subjects, <<>>)]]

\* ------------------------------------------------------------ GradeManager
RECURSIVE ApplyScores(_, _)
ApplyScores(stu, scores) ==
    IF scores = <<>> THEN [raised |-> FALSE, stu |-> stu]
    ELSE LET r == set_score(stu, Head(scores)[1], Head(scores)[2])
         IN IF r.raised THEN r ELSE ApplyScores(r.stu, Tail(scores))

find(list, student_id) ==
    IF \E i \in DOMAIN list : list[i].id = student_id
    THEN CHOOSE i \in DOMAIN list :
            list[i].id = student_id /\ \A j \in 1..(i - 1) : list[j].id /= student_id
    ELSE 0

\* mutant: the records after the deleted one go with it
KeepOthers_Before(list, student_id) ==
    LET Keep(s) == s.id < student_id IN SelectSeq(list, Keep)

KeepOthers(list, student_id) ==
    LET Keep(s) == s.id /= student_id IN SelectSeq(list, Keep)

MaxOf(S) == CHOOSE m \in S : \A x \in S : x <= m

IdsOf(list) == {list[i].id : i \in DOMAIN list}

\* mutant: load keeps the counter it had
LoadedNextId_Keep(list, old) == old

LoadedNextId(list, old) == IF list /= <<>> THEN MaxOf(IdsOf(list)) + 1 ELSE old

\* the call made last: its name, whether it raised, the id handed to delete
\* or given by add_student to the new Student, the call's boolean result
\* and the score handed to set_score
NoCall == [op |-> "none", raised |-> FALSE, id |-> 0, ret |-> FALSE, score |-> 0]

\* the scores dicts a caller can hand to add_student: every dict over the
\* subject inputs, in every order of its keys
ScoreEntries == SubjectInputs \X ScoreInputs
ScoreDicts ==
    {d \in UNION {[1..n -> ScoreEntries] : n \in 0..Cardinality(SubjectInputs)} :
        \A i, j \in DOMAIN d : i /= j => d[i][1] /= d[j][1]}

Init ==
    /\ students = <<>>
    /\ next_id = 1
    /\ file = NoFile
    /\ saved = <<>>
    /\ maxIssued = 0
    /\ maxIssuedSinceLoad = 0
    /\ last = NoCall
    /\ pc = "api"

\* GradeManager(): a new manager in the same directory
NewManager ==
    /\ pc = "api"
    /\ students' = <<>>
    /\ next_id' = 1
    /\ maxIssued' = 0
    /\ maxIssuedSinceLoad' = 0
    /\ last' = [NoCall EXCEPT !.op = "init"]
    /\ UNCHANGED <<file, saved, pc>>

\* mutant: the counter is not advanced
AfterAdd_Same(n) == n

AfterAdd(n) == n + 1

\* mutant: the counter is advanced before the scores are applied
DoAdd_CountFirst(name, scores) ==
    LET stu0 == Student(next_id, name)
        r == ApplyScores(stu0, scores)
    IN /\ next_id' = AfterAdd(next_id)
       /\ IF r.raised
          THEN /\ last' = [NoCall EXCEPT !.op = "add", !.raised = TRUE, !.id = stu0.id]
               /\ UNCHANGED <<students, maxIssued, maxIssuedSinceLoad>>
          ELSE /\ students' = Append(students, r.stu)
               /\ maxIssued' = IF r.stu.id > maxIssued THEN r.stu.id ELSE maxIssued
               /\ maxIssuedSinceLoad' =
                     IF r.stu.id > maxIssuedSinceLoad THEN r.stu.id ELSE maxIssuedSinceLoad
               /\ last' = [NoCall EXCEPT !.op = "add", !.id = r.stu.id]

DoAdd(name, scores) ==
    LET stu0 == Student(next_id, name)
        r == ApplyScores(stu0, scores)
    IN IF r.raised
       THEN /\ last' = [NoCall EXCEPT !.op = "add", !.raised = TRUE, !.id = stu0.id]
            /\ UNCHANGED <<students, next_id, maxIssued, maxIssuedSinceLoad>>
       ELSE /\ students' = Append(students, r.stu)
            /\ next_id' = AfterAdd(next_id)
            /\ maxIssued' = IF r.stu.id > maxIssued THEN r.stu.id ELSE maxIssued
            /\ maxIssuedSinceLoad' =
                  IF r.stu.id > maxIssuedSinceLoad THEN r.stu.id ELSE maxIssuedSinceLoad
            /\ last' = [NoCall EXCEPT !.op = "add", !.id = r.stu.id]

\* bound on the exploration, not a condition of the code
CanAdd == next_id <= MaxId /\ Len(students) < MaxStudents

AddStudent ==
    /\ pc = "api"
    /\ CanAdd
    /\ \E name \in NameInputs, scores \in ScoreDicts : DoAdd(name, scores)
    /\ UNCHANGED <<file, saved, pc>>

DoSetScore(student_id, subject, score) ==
    LET i == find(students, student_id)
        r == set_score(students[i], subject, score)
    IN /\ students' = [students EXCEPT ![i] = r.stu]
       /\ last' = [NoCall EXCEPT !.op = "set_score", !.raised = r.raised,
                                    !.score = score]

SetScore ==
    /\ pc = "api"
    /\ \E student_id \in IdsOf(students), subject \in SubjectInputs, score \in ScoreInputs :
          DoSetScore(student_id, subject, score)
    /\ UNCHANGED <<next_id, file, saved, maxIssued, maxIssuedSinceLoad, pc>>

DoDelete(student_id) ==
    /\ students' = KeepOthers(students, student_id)
    /\ last' = [NoCall EXCEPT !.op = "delete", !.id = student_id,
                              !.ret = (Len(KeepOthers(students, student_id)) < Len(students))]

Delete ==
    /\ pc = "api"
    /\ \E student_id \in IdInputs : DoDelete(student_id)
    /\ UNCHANGED <<next_id, file, saved, maxIssued, maxIssuedSinceLoad, pc>>

DoSave(op) ==
    /\ file' = FileWith(dumps([i \in DOMAIN students |-> to_dict(students[i])]))
    /\ saved' = students
    /\ last' = [NoCall EXCEPT !.op = op]

Save ==
    /\ pc = "api"
    /\ DoSave("save")
    /\ UNCHANGED <<students, next_id, maxIssued, maxIssuedSinceLoad, pc>>

DoLoad(op) ==
    IF ~file.exists
    THEN /\ last' = [NoCall EXCEPT !.op = op]
         /\ UNCHANGED <<students, next_id, maxIssuedSinceLoad>>
    ELSE LET data == loads(file.text)
             loaded == [i \in DOMAIN data |-> from_dict(data[i])]
         IN /\ students' = loaded
            /\ next_id' = LoadedNextId(loaded, next_id)
            /\ maxIssuedSinceLoad' = 0
            /\ last' = [NoCall EXCEPT !.op = op, !.ret = TRUE]

Load ==
    /\ pc = "api"
    /\ DoLoad("load")
    /\ UNCHANGED <<file, saved, maxIssued, pc>>

Next == NewManager \/ AddStudent \/ SetScore \/ Delete \/ Save \/ Load

Spec == Init /\ [][Next]_vars

\* ------------------------------------------------------------ main()
\* ask_scores: every prompt pair is <<subject typed, is the score text a
\* number, the number>>; the blank subject that ends the loop is implicit
RECURSIVE ask_scores(_, _)
ask_scores(typed, scores) ==
    IF typed = <<>> THEN scores
    ELSE LET sub == Strip(Head(typed)[1])
         IN IF Head(typed)[2]
            THEN ask_scores(Tail(typed), DictSet(scores, sub, Head(typed)[3]))
            ELSE ask_scores(Tail(typed), scores)

\* a score text float() accepts, with its value, or one text it rejects
TypedScores == (BOOLEAN \X ScoreInputs) \ {<<FALSE, s>> : s \in ScoreInputs \ {995}}
TypedEntries == {<<sub, t[1], t[2]>> : sub \in SubjectInputs, t \in TypedScores}
TypedLists == UNION {[1..n -> TypedEntries] : n \in 0..MaxTyped}

InitMain ==
    /\ students = <<>>
    /\ next_id = 1
    /\ file = NoFile
    /\ saved = <<>>
    /\ maxIssued = 0
    /\ maxIssuedSinceLoad = 0
    /\ last = NoCall
    /\ pc = "start"

\* gm = GradeManager(); gm.load()
MainStart ==
    /\ pc = "start"
    /\ DoLoad("load")
    /\ pc' = "menu"
    /\ UNCHANGED <<file, saved, maxIssued>>

\* choice "1": the ValueError of set_score is not caught by main
Opt1 ==
    /\ pc = "menu"
    /\ CanAdd
    /\ \E name \in NameInputs, typed \in TypedLists :
          DoAdd(Strip(name), ask_scores(typed, <<>>))
    /\ pc' = IF last'.raised THEN "crashed" ELSE "menu"
    /\ UNCHANGED <<file, saved>>

\* choice "2": int() or float() failing, and set_score raising, are caught
Opt2 ==
    /\ pc = "menu"
    /\ \/ /\ last' = [NoCall EXCEPT !.op = "invalid"]
          /\ UNCHANGED students
       \/ \E sid \in IdInputs :
             /\ find(students, sid) = 0
             /\ last' = [NoCall EXCEPT !.op = "notfound", !.id = sid]
             /\ UNCHANGED students
       \/ \E sid \in IdsOf(students) :
             /\ last' = [NoCall EXCEPT !.op = "invalid", !.id = sid]
             /\ UNCHANGED students
       \/ \E sid \in IdsOf(students), subject \in SubjectInputs, score \in ScoreInputs :
             DoSetScore(sid, Strip(subject), score)
    /\ UNCHANGED <<next_id, file, saved, maxIssued, maxIssuedSinceLoad, pc>>

\* choice "3": show_report prints only
Opt3 ==
    /\ pc = "menu"
    /\ \/ last' = [NoCall EXCEPT !.op = "invalid"]
       \/ \E sid \in IdInputs :
             last' = [NoCall EXCEPT !.op = "report", !.id = sid,
                                    !.ret = (find(students, sid) /= 0)]
    /\ UNCHANGED <<students, next_id, file, saved, maxIssued, maxIssuedSinceLoad, pc>>

\* choice "4"
Opt4 ==
    /\ pc = "menu"
    /\ \/ /\ last' = [NoCall EXCEPT !.op = "invalid"]
          /\ UNCHANGED students
       \/ \E sid \in IdInputs : DoDelete(sid)
    /\ UNCHANGED <<next_id, file, saved, maxIssued, maxIssuedSinceLoad, pc>>

\* choice "5"
Opt5 ==
    /\ pc = "menu"
    /\ DoSave("save")
    /\ UNCHANGED <<students, next_id, maxIssued, maxIssuedSinceLoad, pc>>

\* choice "6"
Opt6 ==
    /\ pc = "menu"
    /\ DoLoad("load")
    /\ UNCHANGED <<file, saved, maxIssued, pc>>

\* choice "7": prints the list
Opt7 ==
    /\ pc = "menu"
    /\ last' = [NoCall EXCEPT !.op = "list"]
    /\ UNCHANGED <<students, next_id, file, saved, maxIssued, maxIssuedSinceLoad, pc>>

\* choice "0": save, then leave the loop
Opt0 ==
    /\ pc = "menu"
    /\ DoSave("exit")
    /\ pc' = "exited"
    /\ UNCHANGED <<students, next_id, maxIssued, maxIssuedSinceLoad>>

\* any other choice
OptOther ==
    /\ pc = "menu"
    /\ last' = [NoCall EXCEPT !.op = "badchoice"]
    /\ UNCHANGED <<students, next_id, file, saved, maxIssued, maxIssuedSinceLoad, pc>>

\* Ctrl-C at a prompt: except KeyboardInterrupt saves and returns
Interrupt ==
    /\ pc = "menu"
    /\ DoSave("interrupt")
    /\ pc' = "exited"
    /\ UNCHANGED <<students, next_id, maxIssued, maxIssuedSinceLoad>>

\* the program is run again after it ended
Rerun ==
    /\ pc \in {"exited", "crashed"}
    /\ students' = <<>>
    /\ next_id' = 1
    /\ maxIssued' = 0
    /\ maxIssuedSinceLoad' = 0
    /\ last' = [NoCall EXCEPT !.op = "init"]
    /\ pc' = "start"
    /\ UNCHANGED <<file, saved>>

NextMain ==
    \/ MainStart \/ Opt1 \/ Opt2 \/ Opt3 \/ Opt4 \/ Opt5 \/ Opt6 \/ Opt7
    \/ Opt0 \/ OptOther \/ Interrupt \/ Rerun

SpecMain == InitMain /\ [][NextMain]_vars

\* ------------------------------------------------------------ properties
AddReturned(c) == c.op = "add" /\ ~c.raised

\* C1 (as stated): every id returned by add_student is greater than every
\* id an earlier add_student on the same manager returned, whatever
\* delete, save and load calls came in between.
C1_IdsNeverReused ==
    [][AddReturned(last') => last'.id > maxIssued]_vars

\* C1 (amended): every id returned by add_student is greater than every id
\* add_student returned on that manager since the last load that read an
\* existing file; delete and save in between change nothing to that.
C1_IdsIncreaseBetweenLoads ==
    [][AddReturned(last') => last'.id > maxIssuedSinceLoad]_vars

\* id 1 was deleted, and the add_student after it returned 2
C1_Witness ==
    /\ AddReturned(last)
    /\ last.id = 2
    /\ maxIssuedSinceLoad = 2
    /\ IdsOf(students) = {2}

\* C2: the ids of the records in the collection are pairwise distinct and
\* each is less than _next_id.
C2_IdsUniqueBelowNextId ==
    /\ \A i, j \in DOMAIN students : i /= j => students[i].id /= students[j].id
    /\ \A i \in DOMAIN students : students[i].id < next_id

\* a manager that issued no id holds two records it loaded
C2_Witness ==
    /\ last.op = "load"
    /\ last.ret
    /\ maxIssued = 0
    /\ Len(students) = 2

\* C3: load after save yields the saved collection: as many records, in
\* the same order, each with the same id, name and subject-to-score map.
C3_RoundTrip ==
    (last.op = "load" /\ last.ret) =>
        /\ Len(students) = Len(saved)
        /\ \A i \in DOMAIN students :
              /\ students[i].id = saved[i].id
              /\ students[i].name = saved[i].name
              /\ students[i].subjects = saved[i].subjects

\* a new manager loaded two records, one of them with two subjects
C3_Witness ==
    /\ last.op = "load"
    /\ last.ret
    /\ maxIssued = 0
    /\ Len(students) = 2
    /\ \E i \in DOMAIN students : Len(students[i].subjects) = 2

\* C4 (as stated): after load found no file, the collection is empty.
C4_MissingFileLeavesEmpty ==
    (last.op = "load" /\ ~last.ret) => students = <<>>

\* C5 (as stated): after load read a file, _next_id is the maximum loaded
\* id plus 1, and 1 when the file holds an empty array.
C5_LoadSetsNextId ==
    (last.op = "load" /\ last.ret) =>
        next_id = IF students /= <<>>
                  THEN 1 + CHOOSE m \in IdsOf(students) : \A x \in IdsOf(students) : x <= m
                  ELSE 1

\* C6 (as stated): the interactive session never ends abnormally because
\* of a score outside [0,100]; it returns to the menu prompt.
C6_NoAbnormalEnd == pc /= "crashed"

\* C7: set_score with a score below 0 or above 100 raises and leaves the
\* subjects of the record, and every other record, as they were.
C7_SetScoreRejects ==
    [][(last'.op = "set_score" /\ (last'.score < 0 \/ last'.score > 1000)) =>
          (last'.raised /\ students' = students)]_vars

\* set_score raised on a record that already had a score
C7_Witness ==
    /\ last.op = "set_score"
    /\ last.raised
    /\ last.score > 1000
    /\ \E i \in DOMAIN students : students[i].subjects /= <<>>

\* C8: every score of every record in the collection is in [0, 100].
C8_ScoresInRange ==
    \A i \in DOMAIN students :
        \A k \in DOMAIN students[i].subjects :
            /\ students[i].subjects[k][2] >= 0
            /\ students[i].subjects[k][2] <= 1000

\* set_score returned on a record that now has two scores
C8_Witness ==
    /\ last.op = "set_score"
    /\ ~last.raised
    /\ \E i \in DOMAIN students : Len(students[i].subjects) = 2

RECURSIVE RecordsOtherThan(_, _)
RecordsOtherThan(list, x) ==
    IF list = <<>> THEN <<>>
    ELSE IF Head(list).id = x THEN RecordsOtherThan(Tail(list), x)
         ELSE <<Head(list)>> \o RecordsOtherThan(Tail(list), x)

\* C9: delete(id) leaves _next_id alone and leaves the records with another
\* id as they were and in their order; when no record has the id it returns
\* false and the collection is unchanged.
C9_DeleteFrame ==
    [][last'.op = "delete" =>
          /\ next_id' = next_id
          /\ RecordsOtherThan(students', last'.id) = RecordsOtherThan(students, last'.id)
          /\ (last'.id \notin IdsOf(students) => (~last'.ret /\ students' = students))]_vars

\* delete removed a record and another record is still there
C9_Witness ==
    /\ last.op = "delete"
    /\ last.ret
    /\ students /= <<>>

\* C10: an add_student that raises appends nothing and leaves _next_id
\* alone, and the add_student that returns right after it gets the id the
\* raising call had given to its record.
C10_FailedAddNoEffect ==
    [][/\ (last'.op = "add" /\ last'.raised) =>
            (students' = students /\ next_id' = next_id /\ last'.id = next_id')
       /\ (AddReturned(last') /\ last.op = "add" /\ last.raised) =>
            last'.id = last.id]_vars

\* add_student raised on a manager that holds a record
C10_Witness ==
    /\ last.op = "add"
    /\ last.raised
    /\ students /= <<>>
    /\ last.id = next_id

====
